---- MODULE Spec2Model ----
(***************************************************************************)
(* Model of backend.py: the four JSON endpoints (generate-initial-content, *)
(* generate-audio, regenerate-scene-part, generate-seo) and their helpers  *)
(* (extract_keywords, buscar_imagen_pixabay, buscar_video_pixabay).        *)
(* One request is followed from its arrival to its response; every         *)
(* blocking outbound call (generative, speech, search, random draw) is one *)
(* step whose outcome is chosen nondeterministically and appended to the   *)
(* log `calls`.                                                            *)
(***************************************************************************)
EXTENDS Integers, Sequences, FiniteSets, TLC

VARIABLES pc, handler, data, resp, calls, scenes, out, use_video, media_url,
          last, fed

vars == <<pc, handler, data, resp, calls, scenes, out, use_video, media_url,
          last, fed>>

(***************************************************************************)
(* Bounds of the model.                                                    *)
(***************************************************************************)
MaxScenes == 2
MaxHits == 2
MaxLen == 4
MaxWords == 3
MaxN == 2

(***************************************************************************)
(* Python values.  Every value is a record tagged by its type; a text is a *)
(* sequence of one-character strings.                                      *)
(***************************************************************************)
None == [t |-> "None"]
Str(s) == [t |-> "str", v |-> s]
PyInt(n) == [t |-> "int", v |-> n]
Dict(d) == [t |-> "dict", v |-> d]
List(l) == [t |-> "list", v |-> l]
Url(field, hit) == [t |-> "url", field |-> field, hit |-> hit]
EmptyDict == [k \in {} |-> None]

\* bool(x): None, '', 0 and {} are falsy
Truthy(x) ==
    CASE x.t = "None" -> FALSE
      [] x.t = "str" -> x.v # <<>>
      [] x.t = "int" -> x.v # 0
      [] x.t = "dict" -> DOMAIN x.v # {}
      [] x.t = "list" -> x.v # <<>>
      [] OTHER -> TRUE

\* dict.get(key, default)
Get(d, key, default) == IF key \in DOMAIN d THEN d[key] ELSE default

Ret(v) == [raised |-> FALSE, value |-> v]
Raise(e) == [raised |-> TRUE, exc |-> e]

(***************************************************************************)
(* Text helpers.                                                           *)
(***************************************************************************)
Whitespace == {" "}
NonWord == {" ", ","}

\* str.lower()
LowerChar(c) == IF c = "U" THEN "u" ELSE IF c = "N" THEN "n" ELSE c
Lower(s) == [i \in 1..Len(s) |-> LowerChar(s[i])]

RECURSIVE LStrip(_)
LStrip(s) == IF s # <<>> /\ Head(s) \in Whitespace THEN LStrip(Tail(s)) ELSE s

RECURSIVE RStrip(_)
RStrip(s) ==
    IF s # <<>> /\ s[Len(s)] \in Whitespace
    THEN RStrip(SubSeq(s, 1, Len(s) - 1))
    ELSE s

\* str.strip()
Strip(s) == RStrip(LStrip(s))

\* re.findall(r'\b\w+\b', s): the maximal runs of word characters
RECURSIVE FindWords(_, _)
FindWords(s, cur) ==
    IF s = <<>>
    THEN IF cur = <<>> THEN <<>> ELSE <<cur>>
    ELSE IF Head(s) \in NonWord
         THEN (IF cur = <<>> THEN <<>> ELSE <<cur>>) \o FindWords(Tail(s), <<>>)
         ELSE FindWords(Tail(s), Append(cur, Head(s)))

\* text.split(' ')[0]: everything before the first space
RECURSIVE FirstSplit(_)
FirstSplit(s) ==
    IF s = <<>> \/ Head(s) = " " THEN <<>> ELSE <<Head(s)>> \o FirstSplit(Tail(s))

stopwords ==
    { <<"e","l">>, <<"l","a">>, <<"l","o","s">>, <<"l","a","s">>, <<"u","n">>,
      <<"u","n","a">>, <<"u","n","o","s">>, <<"u","n","a","s">>, <<"d","e">>,
      <<"e","n">>, <<"y">>, <<"o">>, <<"e","s">>, <<"p","a","r","a">>,
      <<"c","o","n">>, <<"d","e","l">>, <<"a","l">>, <<"s","e">>,
      <<"p","o","r">>, <<"q","u","e">>, <<"m","á","s">>, <<"c","o","m","o">>,
      <<"p","e","r","o">>, <<"n","o">>, <<"s","u">>, <<"s","u","s">>,
      <<"e","s","t","e">>, <<"e","s","t","a">>, <<"e","s","t","o","s">>,
      <<"e","s","t","a","s">>, <<"l","o">>, <<"m","i">>, <<"m","i","s">> }

\* the filter of the list comprehension
KeepsWordShort(word) == word \notin stopwords /\ Len(word) > 1
KeepsWord(word) == word \notin stopwords /\ Len(word) > 2

filtered_words(text) == SelectSeq(FindWords(Lower(text), <<>>), KeepsWord)

Count(ws, w) == Cardinality({i \in 1..Len(ws) : ws[i] = w})
FirstIndex(ws, w) == CHOOSE i \in 1..Len(ws) : ws[i] = w /\ \A j \in 1..(i-1) : ws[j] # w

\* Counter.most_common(): by count, ties in first-encountered order
RECURSIVE RankWords(_, _)
RankWords(ws, left) ==
    IF left = {}
    THEN <<>>
    ELSE LET best == CHOOSE w \in left : \A x \in left :
                        \/ Count(ws, w) > Count(ws, x)
                        \/ /\ Count(ws, w) = Count(ws, x)
                           /\ FirstIndex(ws, w) <= FirstIndex(ws, x)
         IN <<best>> \o RankWords(ws, left \ {best})

most_common(ws, n) ==
    LET ranked == RankWords(ws, {ws[i] : i \in 1..Len(ws)})
    IN IF n <= 0 THEN <<>>
       ELSE IF n >= Len(ranked) THEN ranked ELSE SubSeq(ranked, 1, n)

extract_keywords(text, num_keywords) ==
    LET mc == most_common(filtered_words(text), num_keywords)
    IN IF mc # <<>> THEN mc ELSE <<FirstSplit(text)>>

(***************************************************************************)
(* Inputs of the keyword extractor: every text over KwAlphabet of length   *)
(* at most MaxLen, every phrase of at most MaxWords of KwPieces joined by  *)
(* a space or a comma, and every num_keywords in 0..MaxN.                  *)
(***************************************************************************)
KwAlphabet == {"u", "n", "a", "U", " ", ","}

RECURSIVE TextsOfLen(_)
TextsOfLen(k) ==
    IF k = 0 THEN {<<>>}
    ELSE {Append(s, c) : s \in TextsOfLen(k - 1), c \in KwAlphabet}

KwPieces == { <<"u","n","a">>, <<"n","a","u">>, <<"a","a","a">>, <<"u","n">> }

RECURSIVE PhrasesOf(_)
PhrasesOf(k) ==
    IF k = 1 THEN KwPieces
    ELSE {p \o <<sep>> \o w : p \in PhrasesOf(k - 1), sep \in NonWord, w \in KwPieces}

KwTexts ==
    UNION ({TextsOfLen(k) : k \in 0..MaxLen} \cup {PhrasesOf(k) : k \in 1..MaxWords})

NoResp == [status |-> 0]

KwInit ==
    /\ pc = "kw_call"
    /\ handler = "extract_keywords"
    /\ data \in [text : KwTexts, num_keywords : 0..MaxN]
    /\ resp = NoResp
    /\ calls = <<>>
    /\ scenes = <<>>
    /\ out = <<>>
    /\ use_video = FALSE
    /\ media_url = None
    /\ last = None
    /\ fed = FALSE

KwCall ==
    /\ pc = "kw_call"
    /\ out' = extract_keywords(data.text, data.num_keywords)
    /\ pc' = "kw_done"
    /\ UNCHANGED <<handler, data, resp, calls, scenes, use_video, media_url, last, fed>>

KwNext == KwCall

SpecKw == KwInit /\ [][KwNext]_vars

(***************************************************************************)
(* The search provider.  A call either fails with an exception of          *)
(* requests.exceptions (a timeout, a non-2xx status raised by              *)
(* raise_for_status, a connection error) or delivers the documented JSON   *)
(* body with its list of hits.  Hit number i carries the URLs Url(f, i).   *)
(***************************************************************************)
RequestException == {"Timeout", "HTTPError", "ConnectionError"}

Failure(e) == [kind |-> "exc", exc |-> e]
Json(hits) == [kind |-> "json", hits |-> hits]

ImageFields == {"largeImageURL", "webformatURL"}
ImageHit(fields, i) == [f \in fields |-> Url(f, i)]
ImageHitLists ==
    UNION {{[i \in 1..n |-> ImageHit(fs[i], i)] : fs \in [1..n -> SUBSET ImageFields]}
           : n \in 0..MaxHits}
ImageResponses == {Failure(e) : e \in RequestException} \cup {Json(h) : h \in ImageHitLists}

VideoShapes == {"none", "tiny", "large_no_url", "large"}
VideoHit(shape, i) ==
    CASE shape = "none" -> EmptyDict
      [] shape = "tiny" -> [videos |-> [tiny |-> [url |-> Url("tiny", i)]]]
      [] shape = "large_no_url" -> [videos |-> [large |-> EmptyDict]]
      [] OTHER -> [videos |-> [large |-> [url |-> Url("large", i)]]]
VideoHitLists ==
    UNION {{[i \in 1..n |-> VideoHit(sh[i], i)] : sh \in [1..n -> VideoShapes]}
           : n \in 0..MaxHits}
VideoResponses == {Failure(e) : e \in RequestException} \cup {Json(h) : h \in VideoHitLists}

\* the orientation filter of both searches
orientation(resolution_aspect_ratio) ==
    CASE resolution_aspect_ratio = Str(<<"9",":","1","6">>) -> "vertical"
      [] resolution_aspect_ratio = Str(<<"1","6",":","9">>) -> "horizontal"
      [] resolution_aspect_ratio = Str(<<"1",":","1">>) -> "all"
      [] OTHER -> "all"

\* the for loop of buscar_imagen_pixabay
RECURSIVE best_image_url(_, _)
best_image_url(hits, best) ==
    IF hits = <<>> THEN best
    ELSE IF "largeImageURL" \in DOMAIN Head(hits) THEN Head(hits)["largeImageURL"]
    ELSE IF "webformatURL" \in DOMAIN Head(hits)
         THEN best_image_url(Tail(hits), Head(hits)["webformatURL"])
         ELSE best_image_url(Tail(hits), best)

buscar_imagen_pixabay(response) ==
    IF response.kind = "exc"
    THEN IF response.exc \in RequestException THEN Ret(None) ELSE Raise(response.exc)
    ELSE IF response.hits # <<>> THEN Ret(best_image_url(response.hits, None))
    ELSE Ret(None)

\* the for loop of buscar_video_pixabay
RECURSIVE best_video_url(_)
best_video_url(hits) ==
    IF hits = <<>> THEN None
    ELSE IF /\ "videos" \in DOMAIN Head(hits)
            /\ "large" \in DOMAIN Head(hits)["videos"]
            /\ "url" \in DOMAIN Head(hits)["videos"]["large"]
         THEN Head(hits)["videos"]["large"]["url"]
         ELSE best_video_url(Tail(hits))

buscar_video_pixabay_raising(response) ==
    IF response.kind = "exc" THEN Raise(response.exc)
    ELSE IF response.hits # <<>> THEN Ret(best_video_url(response.hits))
    ELSE Ret(None)

buscar_video_pixabay(response) ==
    IF response.kind = "exc"
    THEN IF response.exc \in RequestException THEN Ret(None) ELSE Raise(response.exc)
    ELSE IF response.hits # <<>> THEN Ret(best_video_url(response.hits))
    ELSE Ret(None)

(***************************************************************************)
(* Shared pieces of the handlers.                                          *)
(***************************************************************************)
Bool(b) == [t |-> "bool", v |-> b]
Call(fn, scene, arg, result) == [fn |-> fn, scene |-> scene, arg |-> arg, result |-> result]
Raised(e) == [t |-> "raised", exc |-> e]
Logged(r) == IF r.raised THEN Raised(r.exc) ELSE r.value

Response(status, body) == [status |-> status, body |-> body]
\* the except clause of every handler
Error500(e) == Response(500, [error |-> e])

RECURSIVE Join(_, _)
Join(sep, texts) ==
    IF texts = <<>> THEN <<>>
    ELSE IF Len(texts) = 1 THEN Head(texts)
    ELSE Head(texts) \o sep \o Join(sep, Tail(texts))

FirstN(seq, n) == IF Len(seq) <= n THEN seq ELSE SubSeq(seq, 1, n)

SearchFns == {"buscar_video_pixabay", "buscar_imagen_pixabay"}

\* "if not media_url" after the video branch: is the image search run?
image_search_always(url) == TRUE
image_search_needed(url) == ~Truthy(url)

(***************************************************************************)
(* Request bodies.  A body is a function from the keys it carries to their *)
(* values; Absent marks a key the body does not carry.                     *)
(***************************************************************************)
Absent == [t |-> "absent"]
Body(fields) == [k \in {x \in DOMAIN fields : fields[x] # Absent} |-> fields[k]]

R916 == Str(<<"9",":","1","6">>)
R169 == Str(<<"1","6",":","9">>)
R11 == Str(<<"1",":","1">>)
Misterio == Str(<<"m","i","s","t","e","r","i","o">>)
Es == Str(<<"e","s">>)

\* generative-text call: an API failure, or the text of the completion
GptFailure == Failure("APIError")
Content(c) == [kind |-> "content", content |-> c]
NotJson == [t |-> "invalid"]

(***************************************************************************)
(* POST /api/generate-initial-content                                      *)
(***************************************************************************)
GicRequests ==
    {Body([guionPersonalizado |-> g, duracion |-> d, resolucion |-> r,
           nicho |-> n, idioma |-> l]) :
        g \in {Absent, None, Str(<<>>), Str(<<" ">>), Str(<<" ", " ">>)},
        d \in {Absent, PyInt(25)}, r \in {Absent, R916},
        n \in {Absent, Misterio}, l \in {Absent, Es}}
    \cup
    {Body([guionPersonalizado |-> Str(<<" ", "a", " ">>), duracion |-> d,
           resolucion |-> r, nicho |-> Misterio, idioma |-> Es]) :
        d \in {Absent, PyInt(25)}, r \in {R169}}

segundos_por_escena == 7

\* max(1, round(duracion_video_seg / segundos_por_escena)); an integer over 7
\* is never half-way, so round() is floor(x + 1/2)
num_escenas_esperadas(duracion_video_seg) ==
    LET r == (2 * duracion_video_seg + segundos_por_escena) \div (2 * segundos_por_escena)
    IN IF r > 1 THEN r ELSE 1

\* the scenes of a completion: scene i of the model's answer
GptScene(i) ==
    IF i % 2 = 1
    THEN [script |-> Str(<<"n","a","u">>),
          keywords |-> << <<"n","a","u">>, <<"a","a","a">>, <<"u","u">>, <<"n","n">> >>]
    ELSE [id |-> Str(<<"i","d">>), script |-> Str(<<"a","a","a">>),
          keywords |-> << <<"a","a","a">> >>]

\* json.loads(content): not JSON, an object without "scenes", or with them
GicCompletions ==
    {GptFailure, Content(NotJson), Content(Dict(EmptyDict))}
    \cup {Content(Dict([scenes |-> List([i \in 1..n |-> GptScene(i)])])) : n \in 0..MaxScenes}

scene_query(scene) == Join(<<" ">>, FirstN(Get(scene, "keywords", <<>>), 3))

Uuid4(i) == [t |-> "uuid", n |-> i]

new_scene_both(scene, i, video, url) ==
    [id |-> IF Truthy(Get(scene, "id", None)) THEN scene["id"] ELSE Uuid4(i),
     script |-> Get(scene, "script", Str(<<>>)),
     imageUrl |-> url,
     videoUrl |-> url,
     audioBase64 |-> None]

new_scene(scene, i, video, url) ==
    [id |-> IF Truthy(Get(scene, "id", None)) THEN scene["id"] ELSE Uuid4(i),
     script |-> Get(scene, "script", Str(<<>>)),
     imageUrl |-> IF ~video THEN url ELSE None,
     videoUrl |-> IF video THEN url ELSE None,
     audioBase64 |-> None]

Init ==
    /\ pc = "idle"
    /\ handler = "none"
    /\ data = EmptyDict
    /\ resp = NoResp
    /\ calls = <<>>
    /\ scenes = <<>>
    /\ out = <<>>
    /\ use_video = FALSE
    /\ media_url = None
    /\ last = None
    /\ fed = FALSE

\* lines 54-62: read the body, then the empty-script check
GIC_Request ==
    /\ pc = "idle"
    /\ \E d \in GicRequests :
        LET raw == Get(d, "guionPersonalizado", Str(<<>>))
            dur == Get(d, "duracion", None)
        IN /\ data' = d
           /\ handler' = "generate_initial_content"
           /\ IF raw.t # "str"
              THEN /\ resp' = Error500("AttributeError")
                   /\ pc' = "done"
              ELSE IF dur.t # "int"
              THEN /\ resp' = Error500("TypeError")
                   /\ pc' = "done"
              ELSE IF Strip(raw.v) = <<>>
              THEN /\ resp' = Response(400, [error |-> "El guion personalizado no puede estar vacio."])
                   /\ pc' = "done"
              ELSE /\ resp' = resp
                   /\ pc' = "gic_gpt"
    /\ UNCHANGED <<calls, scenes, out, use_video, media_url, last, fed>>

\* lines 64-104: the division prompt and its completion
GIC_Gpt ==
    /\ pc = "gic_gpt"
    /\ \E c \in GicCompletions :
        LET arg == [num_escenas_esperadas |-> num_escenas_esperadas(data["duracion"].v),
                    nicho |-> Get(data, "nicho", None),
                    idioma |-> Get(data, "idioma", None),
                    guion_personalizado |-> Strip(data["guionPersonalizado"].v)]
        IN IF c.kind = "exc"
           THEN /\ calls' = Append(calls, Call("chat.completions.create", 0, arg, Raised(c.exc)))
                /\ resp' = Error500(c.exc)
                /\ pc' = "done"
                /\ UNCHANGED scenes
           ELSE /\ calls' = Append(calls, Call("chat.completions.create", 0, arg, Str(<<>>)))
                /\ IF c.content = NotJson
                   THEN /\ resp' = Error500("JSONDecodeError")
                        /\ pc' = "done"
                        /\ UNCHANGED scenes
                   ELSE /\ scenes' = Get(c.content.v, "scenes", List(<<>>)).v
                        /\ pc' = "gic_loop"
                        /\ UNCHANGED resp
    /\ UNCHANGED <<handler, data, out, use_video, media_url, last, fed>>

\* line 109-111: the draw
GIC_Draw ==
    /\ pc = "gic_loop"
    /\ Len(out) < Len(scenes)
    /\ \E b \in BOOLEAN :
        /\ use_video' = b
        /\ calls' = Append(calls, Call("random.random", Len(out) + 1, None, Bool(b)))
        /\ pc' = IF b THEN "gic_video"
                 ELSE IF image_search_needed(None) THEN "gic_image" ELSE "gic_append"
    /\ media_url' = None
    /\ UNCHANGED <<handler, data, resp, scenes, out, last, fed>>

\* lines 112-113
GIC_Video ==
    /\ pc = "gic_video"
    /\ \E r \in VideoResponses :
        LET res == buscar_video_pixabay(r)
            i == Len(out) + 1
            arg == [q |-> scene_query(scenes[i]),
                    orientation |-> orientation(Get(data, "resolucion", None))]
        IN /\ calls' = Append(calls, Call("buscar_video_pixabay", i, arg, Logged(res)))
           /\ last' = [fn |-> "buscar_video_pixabay", response |-> r, result |-> Logged(res)]
           /\ IF res.raised
              THEN /\ resp' = Error500(res.exc)
                   /\ pc' = "done"
                   /\ UNCHANGED media_url
              ELSE /\ media_url' = res.value
                   /\ pc' = IF image_search_needed(res.value) THEN "gic_image" ELSE "gic_append"
                   /\ UNCHANGED resp
    /\ UNCHANGED <<handler, data, scenes, out, use_video, fed>>

\* lines 115-116
GIC_Image ==
    /\ pc = "gic_image"
    /\ \E r \in ImageResponses :
        LET res == buscar_imagen_pixabay(r)
            i == Len(out) + 1
            arg == [q |-> scene_query(scenes[i]),
                    orientation |-> orientation(Get(data, "resolucion", None))]
        IN /\ calls' = Append(calls, Call("buscar_imagen_pixabay", i, arg, Logged(res)))
           /\ last' = [fn |-> "buscar_imagen_pixabay", response |-> r, result |-> Logged(res)]
           /\ IF res.raised
              THEN /\ resp' = Error500(res.exc)
                   /\ pc' = "done"
                   /\ UNCHANGED media_url
              ELSE /\ media_url' = res.value
                   /\ pc' = "gic_append"
                   /\ UNCHANGED resp
    /\ UNCHANGED <<handler, data, scenes, out, use_video, fed>>

\* lines 118-125
GIC_Append ==
    /\ pc = "gic_append"
    /\ out' = Append(out, new_scene(scenes[Len(out) + 1], Len(out) + 1, use_video, media_url))
    /\ pc' = "gic_loop"
    /\ last' = None
    /\ UNCHANGED <<handler, data, resp, calls, scenes, use_video, media_url, fed>>

\* line 127
GIC_Return ==
    /\ pc = "gic_loop"
    /\ Len(out) = Len(scenes)
    /\ resp' = Response(200, [scenes |-> out])
    /\ pc' = "done"
    /\ UNCHANGED <<handler, data, calls, scenes, out, use_video, media_url, last, fed>>

(***************************************************************************)
(* Speech synthesis: an API failure, or the streamed bytes of the audio,   *)
(* read whole and encoded with standard base64.                            *)
(***************************************************************************)
B64Alphabet ==
    << "A","B","C","D","E","F","G","H","I","J","K","L","M","N","O","P",
       "Q","R","S","T","U","V","W","X","Y","Z","a","b","c","d","e","f",
       "g","h","i","j","k","l","m","n","o","p","q","r","s","t","u","v",
       "w","x","y","z","0","1","2","3","4","5","6","7","8","9","+","/" >>
B64Char(n) == B64Alphabet[n + 1]

\* base64.b64encode(bytes).decode('utf-8')
RECURSIVE b64encode(_)
b64encode(bytes) ==
    IF bytes = <<>> THEN <<>>
    ELSE IF Len(bytes) = 1
    THEN << B64Char(bytes[1] \div 4), B64Char((bytes[1] % 4) * 16), "=", "=" >>
    ELSE IF Len(bytes) = 2
    THEN LET n == bytes[1] * 256 + bytes[2]
         IN << B64Char(n \div 1024), B64Char((n \div 16) % 64), B64Char((n % 16) * 4), "=" >>
    ELSE LET n == bytes[1] * 65536 + bytes[2] * 256 + bytes[3]
         IN << B64Char(n \div 262144), B64Char((n \div 4096) % 64),
               B64Char((n \div 64) % 64), B64Char(n % 64) >>
            \o b64encode(SubSeq(bytes, 4, Len(bytes)))

TtsFailure == Failure("APIError")
Audio(bytes) == [kind |-> "audio", bytes |-> bytes]
TtsResponses == {TtsFailure, Audio(<<255>>), Audio(<<73, 68, 51, 4>>)}

Nova == Str(<<"n","o","v","a">>)
Alloy == Str(<<"a","l","l","o","y">>)
OldAudio == Str(<<"T","0","s","=">>)

(***************************************************************************)
(* POST /api/generate-audio                                                *)
(***************************************************************************)
AudioScenes ==
    {[script |-> s, audioBase64 |-> a] :
        s \in {Str(<<>>), Str(<<"n","a","u">>)}, a \in {None, Str(<<>>), OldAudio}}

GaRequests ==
    {Body([scenes |-> sc, voice |-> v]) :
        sc \in {Absent} \cup {List(l) : l \in UNION {[1..n -> AudioScenes] : n \in 0..MaxScenes}},
        v \in {Absent, Alloy}}

\* line 148: is the scene synthesized?
needs_audio_ignoring_payload(scene) == Truthy(Get(scene, "script", None))
needs_audio(scene) ==
    Truthy(Get(scene, "script", None)) /\ ~Truthy(Get(scene, "audioBase64", None))

\* lines 141-145
GA_Request ==
    /\ pc = "idle"
    /\ \E d \in GaRequests :
        /\ data' = d
        /\ scenes' = Get(d, "scenes", List(<<>>)).v
    /\ handler' = "generate_audio"
    /\ pc' = "ga_loop"
    /\ UNCHANGED <<resp, calls, out, use_video, media_url, last, fed>>

\* lines 146-164, a scene that is synthesized
GA_Tts ==
    /\ pc = "ga_loop"
    /\ Len(out) < Len(scenes)
    /\ needs_audio(scenes[Len(out) + 1])
    /\ \E r \in TtsResponses :
        LET i == Len(out) + 1
            scene == scenes[i]
            arg == [voice |-> Get(data, "voice", Nova), input |-> scene["script"]]
        IN IF r.kind = "exc"
           THEN /\ calls' = Append(calls, Call("audio.speech.create", i, arg, Raised(r.exc)))
                /\ resp' = Error500(r.exc)
                /\ pc' = "done"
                /\ UNCHANGED out
           ELSE /\ calls' = Append(calls, Call("audio.speech.create", i, arg,
                                               Str(b64encode(r.bytes))))
                /\ out' = Append(out, [scene EXCEPT !["audioBase64"] = Str(b64encode(r.bytes))])
                /\ UNCHANGED <<resp, pc>>
    /\ UNCHANGED <<handler, data, scenes, use_video, media_url, last, fed>>

\* lines 146-164, a scene that is passed through
GA_Skip ==
    /\ pc = "ga_loop"
    /\ Len(out) < Len(scenes)
    /\ ~needs_audio(scenes[Len(out) + 1])
    /\ out' = Append(out, scenes[Len(out) + 1])
    /\ UNCHANGED <<pc, handler, data, resp, calls, scenes, use_video, media_url, last, fed>>

\* line 166
GA_Return ==
    /\ pc = "ga_loop"
    /\ Len(out) = Len(scenes)
    /\ resp' = Response(200, [scenes |-> out])
    /\ pc' = "done"
    /\ UNCHANGED <<handler, data, calls, scenes, out, use_video, media_url, last, fed>>

\* the client posts the scenes of a successful response back to generate-audio
GA_Feedback ==
    /\ pc = "done"
    /\ handler = "generate_audio"
    /\ resp.status = 200
    /\ ~fed
    /\ fed' = TRUE
    /\ data' = [scenes |-> List(resp.body.scenes), voice |-> Get(data, "voice", Nova)]
    /\ scenes' = resp.body.scenes
    /\ out' = <<>>
    /\ calls' = <<>>
    /\ resp' = NoResp
    /\ pc' = "ga_loop"
    /\ UNCHANGED <<handler, use_video, media_url, last>>

(***************************************************************************)
(* POST /api/regenerate-scene-part                                         *)
(***************************************************************************)
definir_tono_por_nicho(nicho) ==
    CASE nicho = Str(<<"m","i","s","t","e","r","i","o">>) -> "enigmatico y que genere suspenso"
      [] nicho = Str(<<"f","i","n","a","n","z","a","s">>) -> "profesional, claro y confiable"
      [] nicho = Str(<<"t","e","c","n","o","l","o","g","i","a">>) -> "innovador, futurista y facil de entender"
      [] nicho = Str(<<"d","o","c","u","m","e","n","t","a","l","e","s">>) -> "informativo, objetivo y narrativo"
      [] nicho = Str(<<"a","n","i","m","e">>) -> "entusiasta y conocedor, como un verdadero fan"
      [] nicho = Str(<<"b","i","b","l","i","a">>) -> "respetuoso, solemne e inspirador"
      [] nicho = Str(<<"e","x","t","r","a","t","e","r","r","e","s","t","r","e","s">>) -> "misterioso, especulativo y abierto a teorias"
      [] nicho = Str(<<"t","e","n","d","e","n","c","i","a","s">>) -> "moderno, energico y llamativo"
      [] nicho = Str(<<"p","o","l","i","t","i","c","a">>) -> "objetivo, analitico y equilibrado"
      [] OTHER -> "neutral y atractivo"

PartScript == Str(<<"s","c","r","i","p","t">>)
PartMedia == Str(<<"m","e","d","i","a">>)
PartAudio == Str(<<"a","u","d","i","o">>)
PartOther == Str(<<"o","t","r","o">>)

RspScripts ==
    {Absent, None, Str(<<>>), Str(<<"u","n","a">>),
     Str(<<"n","a","u"," ","a","a","a"," ","n","a","u">>)}

RspRequests ==
    {Body([part |-> p, scene |-> sc, config |-> c, voice |-> Absent]) :
        p \in {Absent, PartScript, PartMedia, PartAudio, PartOther},
        sc \in {Absent, Dict(EmptyDict)}
               \cup {Dict(Body([script |-> t, audioBase64 |-> a])) :
                        t \in RspScripts, a \in {None, OldAudio}},
        c \in {Absent, Dict(EmptyDict), Dict([nicho |-> Misterio, idioma |-> Es]),
               Dict([resolucion |-> R11, nicho |-> Misterio, idioma |-> Es])}}

RspCompletions ==
    {GptFailure, Content(Str(<<" ","n","a","u"," ">>)), Content(Str(<<"n","a","u">>))}

\* lines 223-226
media_response_both(video, url) ==
    [newVideoUrl |-> url, newImageUrl |-> url]
media_response(video, url) ==
    IF video THEN [newVideoUrl |-> url, newImageUrl |-> None]
    ELSE [newImageUrl |-> url, newVideoUrl |-> None]

\* lines 180-186, then the branch on part up to its first outbound call
RSP_Request ==
    /\ pc = "idle"
    /\ \E d \in RspRequests :
        LET part_to_regenerate == Get(d, "part", None)
            scene == Get(d, "scene", None)
            config == Get(d, "config", None)
            script == Get(scene.v, "script", Str(<<>>))
        IN /\ data' = d
           /\ IF ~(Truthy(part_to_regenerate) /\ Truthy(scene) /\ Truthy(config))
              THEN /\ resp' = Response(400, [error |-> "Faltan datos en la peticion"])
                   /\ pc' = "done"
                   /\ UNCHANGED out
              ELSE IF part_to_regenerate \in {PartScript, PartMedia}
              THEN IF script.t # "str"
                   THEN /\ resp' = Error500("AttributeError")
                        /\ pc' = "done"
                        /\ UNCHANGED out
                   ELSE /\ out' = extract_keywords(script.v, 3)
                        /\ pc' = IF part_to_regenerate = PartScript THEN "rsp_gpt" ELSE "rsp_draw"
                        /\ UNCHANGED resp
              ELSE IF part_to_regenerate = PartAudio
              THEN /\ pc' = "rsp_tts"
                   /\ UNCHANGED <<resp, out>>
              ELSE /\ resp' = Response(400, [error |-> "Parte a regenerar no valida"])
                   /\ pc' = "done"
                   /\ UNCHANGED out
    /\ handler' = "regenerate_scene_part"
    /\ UNCHANGED <<calls, scenes, use_video, media_url, last, fed>>

\* lines 190-207
RSP_Gpt ==
    /\ pc = "rsp_gpt"
    /\ \E c \in RspCompletions :
        LET config == data["config"].v
            arg == [tema |-> Get(config, "tema", None),
                    nicho |-> Get(config, "nicho", None),
                    tono |-> definir_tono_por_nicho(Get(config, "nicho", None)),
                    idioma |-> Get(config, "idioma", None),
                    keyword_str |-> Join(<<",", " ">>, out),
                    script |-> Get(data["scene"].v, "script", None)]
        IN IF c.kind = "exc"
           THEN /\ calls' = Append(calls, Call("chat.completions.create", 1, arg, Raised(c.exc)))
                /\ resp' = Error500(c.exc)
           ELSE /\ calls' = Append(calls, Call("chat.completions.create", 1, arg, c.content))
                /\ resp' = Response(200, [newScript |-> Str(Strip(c.content.v))])
    /\ pc' = "done"
    /\ UNCHANGED <<handler, data, scenes, out, use_video, media_url, last, fed>>

\* lines 214-216
RSP_Draw ==
    /\ pc = "rsp_draw"
    /\ \E b \in BOOLEAN :
        /\ use_video' = b
        /\ calls' = Append(calls, Call("random.random", 1, None, Bool(b)))
        /\ pc' = IF b THEN "rsp_video"
                 ELSE IF image_search_needed(None) THEN "rsp_image" ELSE "rsp_return"
    /\ media_url' = None
    /\ UNCHANGED <<handler, data, resp, scenes, out, last, fed>>

\* lines 217-218
RSP_Video ==
    /\ pc = "rsp_video"
    /\ \E r \in VideoResponses :
        LET res == buscar_video_pixabay(r)
            arg == [q |-> Join(<<" ">>, out),
                    orientation |-> orientation(Get(data["config"].v, "resolucion", None))]
        IN /\ calls' = Append(calls, Call("buscar_video_pixabay", 1, arg, Logged(res)))
           /\ last' = [fn |-> "buscar_video_pixabay", response |-> r, result |-> Logged(res)]
           /\ IF res.raised
              THEN /\ resp' = Error500(res.exc)
                   /\ pc' = "done"
                   /\ UNCHANGED media_url
              ELSE /\ media_url' = res.value
                   /\ pc' = IF image_search_needed(res.value) THEN "rsp_image" ELSE "rsp_return"
                   /\ UNCHANGED resp
    /\ UNCHANGED <<handler, data, scenes, out, use_video, fed>>

\* lines 220-221
RSP_Image ==
    /\ pc = "rsp_image"
    /\ \E r \in ImageResponses :
        LET res == buscar_imagen_pixabay(r)
            arg == [q |-> Join(<<" ">>, out),
                    orientation |-> orientation(Get(data["config"].v, "resolucion", None))]
        IN /\ calls' = Append(calls, Call("buscar_imagen_pixabay", 1, arg, Logged(res)))
           /\ last' = [fn |-> "buscar_imagen_pixabay", response |-> r, result |-> Logged(res)]
           /\ IF res.raised
              THEN /\ resp' = Error500(res.exc)
                   /\ pc' = "done"
                   /\ UNCHANGED media_url
              ELSE /\ media_url' = res.value
                   /\ pc' = "rsp_return"
                   /\ UNCHANGED resp
    /\ UNCHANGED <<handler, data, scenes, out, use_video, fed>>

\* lines 223-226
RSP_MediaReturn ==
    /\ pc = "rsp_return"
    /\ resp' = Response(200, media_response(use_video, media_url))
    /\ pc' = "done"
    /\ UNCHANGED <<handler, data, calls, scenes, out, use_video, media_url, last, fed>>

\* lines 229-241
RSP_Tts ==
    /\ pc = "rsp_tts"
    /\ \E r \in TtsResponses :
        LET arg == [voice |-> Get(data, "voice", Nova),
                    input |-> Get(data["scene"].v, "script", None)]
        IN IF r.kind = "exc"
           THEN /\ calls' = Append(calls, Call("audio.speech.create", 1, arg, Raised(r.exc)))
                /\ resp' = Error500(r.exc)
           ELSE /\ calls' = Append(calls, Call("audio.speech.create", 1, arg,
                                               Str(b64encode(r.bytes))))
                /\ resp' = Response(200, [newAudioBase64 |-> Str(b64encode(r.bytes))])
    /\ pc' = "done"
    /\ UNCHANGED <<handler, data, scenes, out, use_video, media_url, last, fed>>

(***************************************************************************)
(* POST /api/generate-seo                                                  *)
(***************************************************************************)
TypeAll == Str(<<"a","l","l">>)
TypeTitulo == Str(<<"t","i","t","u","l","o">>)
TypeDescripcion == Str(<<"d","e","s","c","r","i","p","c","i","o","n">>)
TypeHashtags == Str(<<"h","a","s","h","t","a","g","s">>)

SeoRequests ==
    {Body([guion |-> g, nicho |-> n, type |-> ty]) :
        g \in {Absent, Str(<<>>), Str(<<"n","a","u"," ","a","a","a">>)},
        n \in {Absent, Str(<<>>), Misterio},
        ty \in {Absent, TypeAll, TypeTitulo, TypeDescripcion, TypeHashtags, PartOther}}

SeoCompletions ==
    {GptFailure, Content(Str(<<" ","n","a","u"," ">>)), Content(Str(<<"a","a","a">>))}

\* lines 267, 279, 292: is the field generated?
seo_wants_always(seo_type, field) == TRUE
seo_wants(seo_type, field) == seo_type = TypeAll \/ seo_type = field

\* lines 258-266
SEO_Request ==
    /\ pc = "idle"
    /\ \E d \in SeoRequests :
        /\ data' = d
        /\ IF ~Truthy(Get(d, "guion", None)) \/ ~Truthy(Get(d, "nicho", None))
           THEN /\ resp' = Response(400, [error |-> "Guion y nicho son requeridos para generar SEO"])
                /\ pc' = "done"
           ELSE /\ pc' = "seo_titulo"
                /\ UNCHANGED resp
    /\ handler' = "generate_seo"
    /\ out' = EmptyDict
    /\ UNCHANGED <<calls, scenes, use_video, media_url, last, fed>>

\* one "if seo_type == 'all' or seo_type == field" block
SeoBlock(field, name, guion_arg, next) ==
    IF seo_wants(Get(data, "type", TypeAll), field)
    THEN \E c \in SeoCompletions :
            LET arg == [field |-> name, nicho |-> data["nicho"], guion |-> guion_arg]
            IN IF c.kind = "exc"
               THEN /\ calls' = Append(calls, Call("chat.completions.create", 0, arg, Raised(c.exc)))
                    /\ resp' = Error500(c.exc)
                    /\ pc' = "done"
                    /\ UNCHANGED out
               ELSE /\ calls' = Append(calls, Call("chat.completions.create", 0, arg, c.content))
                    /\ out' = [k \in DOMAIN out \cup {name} |->
                                  IF k = name THEN Str(Strip(c.content.v)) ELSE out[k]]
                    /\ pc' = next
                    /\ UNCHANGED resp
    ELSE /\ pc' = next
         /\ UNCHANGED <<calls, resp, out>>

\* lines 267-277
SEO_Titulo ==
    /\ pc = "seo_titulo"
    /\ SeoBlock(TypeTitulo, "titulo", FirstN(data["guion"].v, 200), "seo_descripcion")
    /\ UNCHANGED <<handler, data, scenes, use_video, media_url, last, fed>>

\* lines 279-290
SEO_Descripcion ==
    /\ pc = "seo_descripcion"
    /\ SeoBlock(TypeDescripcion, "descripcion", data["guion"].v, "seo_hashtags")
    /\ UNCHANGED <<handler, data, scenes, use_video, media_url, last, fed>>

\* lines 292-303
SEO_Hashtags ==
    /\ pc = "seo_hashtags"
    /\ SeoBlock(TypeHashtags, "hashtags", FirstN(data["guion"].v, 200), "seo_return")
    /\ UNCHANGED <<handler, data, scenes, use_video, media_url, last, fed>>

\* line 305
SEO_Return ==
    /\ pc = "seo_return"
    /\ resp' = Response(200, out)
    /\ pc' = "done"
    /\ UNCHANGED <<handler, data, calls, scenes, out, use_video, media_url, last, fed>>

Next ==
    \/ GIC_Request
    \/ GIC_Gpt
    \/ GIC_Draw
    \/ GIC_Video
    \/ GIC_Image
    \/ GIC_Append
    \/ GIC_Return
    \/ GA_Request
    \/ GA_Tts
    \/ GA_Skip
    \/ GA_Return
    \/ GA_Feedback
    \/ RSP_Request
    \/ RSP_Gpt
    \/ RSP_Draw
    \/ RSP_Video
    \/ RSP_Image
    \/ RSP_MediaReturn
    \/ RSP_Tts
    \/ SEO_Request
    \/ SEO_Titulo
    \/ SEO_Descripcion
    \/ SEO_Hashtags
    \/ SEO_Return

Spec == Init /\ [][Next]_vars

(***************************************************************************)
(* Properties.                                                             *)
(***************************************************************************)
Done(h) == pc = "done" /\ handler = h
Searches == SelectSeq(calls, LAMBDA c : c.fn \in SearchFns)
SceneSearches(i) == SelectSeq(calls, LAMBDA c : c.fn \in SearchFns /\ c.scene = i)
IsMediaRequest ==
    /\ handler = "regenerate_scene_part"
    /\ Get(data, "part", None) = PartMedia
OutboundCalls == SelectSeq(calls, LAMBDA c : c.fn # "random.random")

\* the body carries guionPersonalizado, a string that is empty or only whitespace
EmptyGuion ==
    /\ "guionPersonalizado" \in DOMAIN data
    /\ data["guionPersonalizado"].t = "str"
    /\ Strip(data["guionPersonalizado"].v) = <<>>

\* C1: a POST to generate-initial-content whose guionPersonalizado is empty
\* or whitespace-only is answered 400 with an error field, whatever the other
\* fields are (present or not), and no outbound call is made before it.
C1_EmptyScriptIs400 ==
    (Done("generate_initial_content") /\ EmptyGuion)
        => /\ resp.status = 400
           /\ "error" \in DOMAIN resp.body
           /\ OutboundCalls = <<>>

\* C2: in every scene built by generate-initial-content and in every media
\* response of regenerate-scene-part, the image field and the video field are
\* never both non-null.
C2_NeverBothMedia ==
    /\ handler = "generate_initial_content"
        => /\ \A i \in 1..Len(out) : ~(out[i].imageUrl # None /\ out[i].videoUrl # None)
           /\ (pc = "done" /\ resp.status = 200)
                => \A i \in 1..Len(resp.body.scenes) :
                      ~(resp.body.scenes[i].imageUrl # None
                        /\ resp.body.scenes[i].videoUrl # None)
    /\ (IsMediaRequest /\ pc = "done" /\ resp.status = 200)
        => ~(resp.body.newImageUrl # None /\ resp.body.newVideoUrl # None)

C2_Witness ==
    /\ Done("generate_initial_content")
    /\ resp.status = 200
    /\ Len(resp.body.scenes) = 2
    /\ resp.body.scenes[1].videoUrl # None
    /\ resp.body.scenes[2].imageUrl # None

\* C3: in generate-initial-content a URL obtained from the image search is
\* placed in imageUrl and a URL obtained from the video search in videoUrl,
\* the other field being null -- also when the video search was attempted,
\* yielded nothing, and the image search then returned a URL.
C3_UrlInItsOwnField ==
    handler = "generate_initial_content"
        => \A i \in 1..Len(out) : \A j \in 1..Len(calls) :
              (calls[j].scene = i /\ calls[j].fn \in SearchFns /\ calls[j].result # None)
                  => IF calls[j].fn = "buscar_imagen_pixabay"
                     THEN out[i].imageUrl = calls[j].result /\ out[i].videoUrl = None
                     ELSE out[i].videoUrl = calls[j].result /\ out[i].imageUrl = None

ExactlyOne(body) == (body.newVideoUrl # None) # (body.newImageUrl # None)

\* C4 (as stated): every media regeneration that returns 200 has exactly one
\* of newVideoUrl and newImageUrl non-null, also when both searches return
\* no result.
C4_ExactlyOneAlways ==
    (IsMediaRequest /\ pc = "done" /\ resp.status = 200) => ExactlyOne(resp.body)

\* C4 (amended): every media regeneration that returns 200 has at most one of
\* newVideoUrl and newImageUrl non-null; exactly one is non-null when the last
\* search issued returned a URL, and both are null when it returned none.
C4_ExactlyOneIffFound ==
    (IsMediaRequest /\ pc = "done" /\ resp.status = 200)
        => /\ Searches # <<>>
           /\ LET found == Searches[Len(Searches)].result
              IN IF found # None
                 THEN ExactlyOne(resp.body)
                 ELSE resp.body.newVideoUrl = None /\ resp.body.newImageUrl = None

C4_Witness ==
    /\ IsMediaRequest
    /\ pc = "done"
    /\ resp.status = 200
    /\ Len(Searches) = 2
    /\ resp.body.newVideoUrl = None
    /\ resp.body.newImageUrl = None

HasAudio(scene) == Truthy(Get(scene, "audioBase64", None))
TtsCalls == SelectSeq(calls, LAMBDA c : c.fn = "audio.speech.create")

Survives(word) == Len(word) >= 3 /\ word \notin stopwords
SomeTokenSurvives(text) ==
    \E i \in 1..Len(FindWords(Lower(text), <<>>)) :
        Survives(FindWords(Lower(text), <<>>)[i])

\* C6 (as stated): no element returned by extract_keywords(text, n) is
\* shorter than 3 characters or a stopword, for every text and every n,
\* including when no token of the text survives the filtering.
C6_NeverShortOrStopword ==
    pc = "kw_done" => \A i \in 1..Len(out) : Survives(out[i])

\* C6 (amended): when at least one token survives the filtering and n >= 1,
\* no element returned is shorter than 3 characters or a stopword; otherwise
\* the result is the one-element sequence holding the first space-delimited
\* token of the original text (which may be short, a stopword or empty).
C6_FilteredUnlessFallback ==
    pc = "kw_done"
        => IF SomeTokenSurvives(data.text) /\ data.num_keywords >= 1
           THEN /\ out # <<>>
                /\ \A i \in 1..Len(out) : Survives(out[i])
           ELSE out = <<FirstSplit(data.text)>>

C6_Witness ==
    /\ pc = "kw_done"
    /\ data.num_keywords = 2
    /\ Len(out) = 2
    /\ \E i \in 1..Len(FindWords(Lower(data.text), <<>>)) :
          ~Survives(FindWords(Lower(data.text), <<>>)[i])

SeoFields(seo_type) ==
    CASE seo_type = TypeAll -> {"titulo", "descripcion", "hashtags"}
      [] seo_type = TypeTitulo -> {"titulo"}
      [] seo_type = TypeDescripcion -> {"descripcion"}
      [] seo_type = TypeHashtags -> {"hashtags"}

\* C7: a generate-seo request with non-empty guion and nicho whose generative
\* calls all succeed returns exactly the key named by type (titulo,
\* descripcion or hashtags), or exactly the three keys for type 'all' or no
\* type, and issues as many generative calls as it returns keys.
C7_SeoKeysMatchType ==
    (Done("generate_seo") /\ resp.status = 200
       /\ Get(data, "type", TypeAll) \in {TypeAll, TypeTitulo, TypeDescripcion, TypeHashtags})
        => /\ DOMAIN resp.body = SeoFields(Get(data, "type", TypeAll))
           /\ Len(calls) = Cardinality(DOMAIN resp.body)
           /\ \A j \in 1..Len(calls) : calls[j].fn = "chat.completions.create"

C7_Witness ==
    /\ Done("generate_seo")
    /\ resp.status = 200
    /\ Get(data, "type", None) = TypeDescripcion
    /\ DOMAIN resp.body = {"descripcion"}

Failed(response) == response.kind = "exc" \/ response.hits = <<>>

C9_FirstHitWins ==
    (last # None /\ last.fn = "buscar_imagen_pixabay"
       /\ last.response.kind = "json" /\ last.response.hits # <<>>)
        => LET first == last.response.hits[1]
           IN /\ "largeImageURL" \in DOMAIN first
                  => last.result = first["largeImageURL"]
              /\ ("largeImageURL" \notin DOMAIN first /\ "webformatURL" \in DOMAIN first)
                  => last.result = first["webformatURL"]

MediaEvents(i) ==
    SelectSeq(calls, LAMBDA c : c.scene = i /\ c.fn \in SearchFns \cup {"random.random"})

\* the calls of one scene, so far, follow the order draw, [video], [image]
OrderedSoFar(ev) ==
    /\ Len(ev) <= 3
    /\ Len(ev) >= 1 => ev[1].fn = "random.random"
    /\ Len(ev) >= 2 => ev[2].fn = IF ev[1].result.v THEN "buscar_video_pixabay"
                                  ELSE "buscar_imagen_pixabay"
    /\ Len(ev) = 3 => /\ ev[2].fn = "buscar_video_pixabay"
                      /\ ev[2].result = None
                      /\ ev[3].fn = "buscar_imagen_pixabay"

\* the calls of a finished scene: nothing is missing
Finished(ev) ==
    /\ OrderedSoFar(ev)
    /\ Len(ev) >= 2
    /\ (ev[2].fn = "buscar_video_pixabay" /\ ev[2].result = None) => Len(ev) = 3

ScenesFinished ==
    IF handler = "generate_initial_content" THEN Len(out)
    ELSE IF pc \in {"rsp_return", "done"} /\ Searches # <<>> THEN 1 ELSE 0

\* C10: per scene the media selection makes exactly one draw; a video search
\* is issued iff the draw selects video; an image search is issued iff the
\* video search was skipped or returned no URL, and after it; so each scene
\* causes one or two search calls, and the calls of scene i all complete
\* before any call of scene i+1 begins.
C10_SearchOrder ==
    (handler = "generate_initial_content" \/ IsMediaRequest)
        => /\ \A j \in 1..Len(calls) : \A k \in j..Len(calls) :
                 calls[j].scene <= calls[k].scene
           /\ \A i \in 1..(ScenesFinished + 1) : OrderedSoFar(MediaEvents(i))
           /\ \A i \in 1..ScenesFinished :
                 /\ Finished(MediaEvents(i))
                 /\ Len(SceneSearches(i)) \in {1, 2}

C10_Witness ==
    /\ Done("generate_initial_content")
    /\ resp.status = 200
    /\ Len(out) = 2
    /\ Len(SceneSearches(1)) = 2
    /\ Len(SceneSearches(2)) = 1
    /\ MediaEvents(2)[2].fn = "buscar_video_pixabay"

====
